---- MODULE Spec2Model ----
(***************************************************************************)
(* RustMarket: the ledger (accounts, positions, orders), the trade         *)
(* execution engine (market_buy / market_sell / deposit_funds) and the     *)
(* price-alert monitor, as state machines over the document store.         *)
(*                                                                         *)
(* Every store call of the source (an await) is one atomic step; the       *)
(* synchronous code between two awaits belongs to the step of the await    *)
(* before it.  MongoDB single-document operations are atomic, so a step    *)
(* reads or writes the store in one go.  The quote gateway holds no state  *)
(* of the program, so a request's quote fetch is taken in the step that    *)
(* starts the request.                                                     *)
(*                                                                         *)
(* Money (f64 in the source) is modelled by integers; the quotient of the  *)
(* average price is the integer quotient.  Quotes decoded from JSON are    *)
(* always finite, so no non-finite value is modelled.  Timestamps          *)
(* (created_at, updated_at, triggered_at) are not modelled.                *)
(***************************************************************************)
EXTENDS Integers, Sequences, FiniteSets, TLC

VARIABLES
    accounts,   \* collection "accounts": user id (_id) -> cash
    positions,  \* collection "positions": set of position documents
    orders,     \* collection "orders": sequence of order documents
    req,        \* the HTTP request tasks in flight: slot -> task state
    nextPid,    \* next fresh ObjectId for a position
    ops,        \* number of requests started so far
    deposited,  \* history: user id -> sum of the amounts of the deposits made
    faults,     \* number of store failures injected so far
    alerts,     \* collection "alerts": set of alert documents
    nextAid,    \* next fresh ObjectId for an alert
    mon,        \* the alert monitor task: its position and the locals of run_tick
    ticks,      \* number of monitor ticks started so far
    calls,      \* number of alert requests served so far
    apiSent,    \* number of alertsUpdated events the alert requests have sent
    obs,        \* history: alert id -> the trigger attempts made on it, in order
    relay,      \* one realtime relay task: its position, sockets and history
    bus         \* the notification channel events_tx and its SSE subscribers

ledgerVars == <<accounts, positions, orders, req, nextPid, ops, deposited>>
alertVars == <<alerts, nextAid, mon, ticks, calls, apiSent, obs>>
vars == <<accounts, positions, orders, req, nextPid, ops, deposited, faults,
          alerts, nextAid, mon, ticks, calls, apiSent, obs, relay, bus>>

----------------------------------------------------------------------------
(* Bounds of the model *)

MaxOps == 2        \* requests started in one behaviour
MaxFaults == 1     \* store failures in one behaviour
MaxCalls == 2      \* alert requests (create, delete, trigger) in one behaviour
MaxTicks == 1      \* monitor ticks in one behaviour
MaxEvents == 3     \* events one relay handles
MaxPublished == 4  \* values sent on the bus in one behaviour
BusCapacity == 2   \* values the channel retains (256 in main)

(* Program constants *)

StartingCash == 10000

----------------------------------------------------------------------------
(* The inputs *)

Users == {"u1", "u2"}
Reqs == {"r1", "r2"}
SymbolInputs == {"aapl", " "}
Qtys == {0, 1, 2}
Prices == {-5000, 0, 2500, 7500}
QtyForms == {"abc", "0", "-1", "1", " 2 "}
FormAmounts == {"abc", "0", "-2500", "2500"}
FundsForms == FormAmounts \cup {"inf", "NaN", " 5000 "}
AlertSymbolInputs == {"aapl", "TSLA"}
ConditionInputs == {"Above", "below", "near"}
TargetInputs == {"abc", "0", "2500"}

QuoteOutcomes ==
    {[ok |-> FALSE, c |-> 0]} \cup {[ok |-> TRUE, c |-> p] : p \in Prices}

AlertQuoteOutcomes == QuoteOutcomes \cup {[ok |-> TRUE, c |-> 1000]}

NoQuote == [ok |-> FALSE, c |-> -1]

ToUpper(s) ==
    CASE s = "aapl" -> "AAPL"
      [] s = "tsla" -> "TSLA"
      [] OTHER -> s

ToLower(s) ==
    CASE s = "Above" -> "above"
      [] s = "BELOW" -> "below"
      [] OTHER -> s

\* The two f64 values that are no numbers, as they compare: neither is <= 0.
Infinity == 1000000000
NaN == 1000000001

IsFinite(x) == x \in Int /\ x \notin {Infinity, NaN}

TrimIsEmptyNever(s) == FALSE

TrimIsEmpty(s) == s \in {"", " "}

\* qty_str.parse::<i64>() of the trimmed form field.
ParseQty(s) ==
    CASE s = "0" -> [ok |-> TRUE, v |-> 0]
      [] s = "-1" -> [ok |-> TRUE, v |-> -1]
      [] s = "1" -> [ok |-> TRUE, v |-> 1]
      [] s = " 2 " -> [ok |-> TRUE, v |-> 2]
      [] OTHER -> [ok |-> FALSE, v |-> 0]

QtyInvalidStrict(q) == q < 0

QtyInvalid(q) == q <= 0

ParseAmount(s) ==
    CASE s = "0" -> [ok |-> TRUE, v |-> 0]
      [] s = "-2500" -> [ok |-> TRUE, v |-> -2500]
      [] s = "2500" -> [ok |-> TRUE, v |-> 2500]
      [] s = "5000" -> [ok |-> TRUE, v |-> 5000]
      [] s = " 5000 " -> [ok |-> TRUE, v |-> 5000]
      [] s = "inf" -> [ok |-> TRUE, v |-> Infinity]
      [] s = "NaN" -> [ok |-> TRUE, v |-> NaN]
      [] OTHER -> [ok |-> FALSE, v |-> 0]

----------------------------------------------------------------------------
(* The store *)

Snapshot == [accounts |-> accounts, positions |-> positions, orders |-> orders]

EmptySnapshot == [accounts |-> <<>>, positions |-> {}, orders |-> <<>>]

FindPosition(ps, u, sym) ==
    LET m == {p \in ps : p.user_id = u /\ p.symbol = sym}
    IN  IF m = {} THEN <<>> ELSE <<CHOOSE p \in m : TRUE>>

UpsertAllowed(ps, pos) ==
    \/ \E p \in ps : p.id = pos.id
    \/ ~\E p \in ps : p.user_id = pos.user_id /\ p.symbol = pos.symbol

UpsertPosition(ps, pos) == {p \in ps : p.id # pos.id} \cup {pos}

DeletePosition(ps, id) == {p \in ps : p.id # id}

SetCashIgnored(accs, u, cash) == accs

SetCash(accs, u, cash) ==
    IF u \in DOMAIN accs THEN [accs EXCEPT ![u] = cash] ELSE accs

InsertAccount(accs, u, cash) ==
    [x \in DOMAIN accs \cup {u} |-> IF x = u THEN cash ELSE accs[x]]

TradeEventsCashTwice == <<"ordersUpdated", "cashUpdated", "cashUpdated">>

TradeEvents == <<"ordersUpdated", "positionUpdated", "cashUpdated">>

----------------------------------------------------------------------------
(* Request tasks *)

IdleReq ==
    [pc |-> "idle", kind |-> "none", user |-> "u1", symbol |-> "", qty |-> 0,
     quote |-> NoQuote, price |-> 0, total |-> 0, cash |-> 0,
     pos |-> <<>>, result |-> "none", remaining |-> <<>>, sent |-> <<>>,
     pre |-> EmptySnapshot, alone |-> TRUE, faulted |-> FALSE, wrote |-> FALSE,
     unparsed |-> FALSE]

Active(rq) == rq.pc \notin {"idle", "done"}

Quiet == \A r \in Reqs : ~Active(req[r])

CanStart(r) ==
    /\ ~Active(req[r])
    /\ ops < MaxOps
    /\ r = "r2" => Active(req["r1"])

\* The request as it starts.  pre and alone are history: the store as the
\* request found it, kept while no other request runs beside it.
NewReq(r, kind, u, sym, q) ==
    [IdleReq EXCEPT !.kind = kind, !.user = u, !.symbol = sym, !.qty = q,
                    !.pre = IF Quiet THEN Snapshot ELSE EmptySnapshot,
                    !.alone = Quiet]

Started(r, rq) ==
    /\ req' = [x \in Reqs |->
                 IF x = r THEN rq
                 ELSE IF Active(req[x])
                      THEN [req[x] EXCEPT !.alone = FALSE, !.pre = EmptySnapshot]
                      ELSE req[x]]
    /\ ops' = ops + 1

Finish(rq, res) ==
    [rq EXCEPT !.pc = "done", !.result = res,
               !.cash = IF res = "ok" THEN @ ELSE 0,
               !.pos = IF res = "ok" THEN @ ELSE <<>>]

Failed(rq, res) == [Finish(rq, res) EXCEPT !.faulted = TRUE]

StoreOk == IF faults < MaxFaults THEN {TRUE, FALSE} ELSE {TRUE}

Count(ok) == faults' = IF ok THEN faults ELSE faults + 1

----------------------------------------------------------------------------
(* account_service::get_or_create_account, continued by its caller *)

AfterAccountNoBalanceCheck(rq, cash) ==
    IF rq.kind = "buy"
    THEN [rq EXCEPT !.cash = cash, !.pc = "pos_get"]
    ELSE [rq EXCEPT !.cash = cash + rq.total, !.pc = "set_cash"]

AfterAccountNoCredit(rq, cash) ==
    IF rq.kind = "buy"
    THEN IF cash < rq.total
         THEN Finish(rq, "balance")
         ELSE [rq EXCEPT !.cash = cash, !.pc = "pos_get"]
    ELSE [rq EXCEPT !.cash = cash, !.pc = "set_cash"]

AfterAccount(rq, cash) ==
    IF rq.kind = "buy"
    THEN IF cash < rq.total
         THEN Finish(rq, "balance")
         ELSE [rq EXCEPT !.cash = cash, !.pc = "pos_get"]
    ELSE [rq EXCEPT !.cash = cash + rq.total, !.pc = "set_cash"]

AcctFind(r) ==
    /\ req[r].pc = "acct_find"
    /\ \E ok \in StoreOk :
        /\ Count(ok)
        /\ IF ok /\ req[r].user \in DOMAIN accounts
           THEN req' = [req EXCEPT ![r] = AfterAccount(req[r], accounts[req[r].user])]
           ELSE req' = [req EXCEPT ![r] = [req[r] EXCEPT !.pc = "acct_insert",
                                                         !.faulted = @ \/ ~ok]]
    /\ UNCHANGED <<accounts, positions, orders, nextPid, ops, deposited>>

AcctInsert(r) ==
    /\ req[r].pc = "acct_insert"
    /\ \E ok \in StoreOk :
        /\ Count(ok)
        /\ IF ok /\ req[r].user \notin DOMAIN accounts
           THEN /\ accounts' = InsertAccount(accounts, req[r].user, StartingCash)
                /\ req' = [req EXCEPT ![r] =
                             AfterAccount([req[r] EXCEPT !.wrote = TRUE], StartingCash)]
           ELSE /\ req' = [req EXCEPT ![r] =
                             Failed(req[r], IF ok THEN "db_error_duplicate_key"
                                            ELSE "db_error")]
                /\ UNCHANGED accounts
    /\ UNCHANGED <<positions, orders, nextPid, ops, deposited>>

----------------------------------------------------------------------------
(* trading_service::market_buy *)

BuyQuoted(rq, qo) ==
    IF ~qo.ok
    THEN Finish([rq EXCEPT !.quote = qo], "quote_error")
    ELSE [rq EXCEPT !.quote = qo, !.price = qo.c, !.total = qo.c * rq.qty,
                    !.pc = "acct_find"]

MarketBuy(r, u, s, q, qo) ==
    /\ CanStart(r)
    /\ LET sym == ToUpper(s)
           rq == NewReq(r, "buy", u, sym, q)
       IN  IF TrimIsEmpty(sym) \/ QtyInvalid(q)
           THEN Started(r, Finish(rq, "validation"))
           ELSE Started(r, BuyQuoted(rq, qo))
    /\ UNCHANGED <<accounts, positions, orders, nextPid, faults, deposited>>

BuyNewPositionLastPrice(rq, pos_opt, id) ==
    IF pos_opt # <<>>
    THEN [pos_opt[1] EXCEPT !.qty = @ + rq.qty, !.avg_price = rq.price]
    ELSE [id |-> id, user_id |-> rq.user, symbol |-> rq.symbol,
          qty |-> rq.qty, avg_price |-> rq.price]

BuyNewPosition(rq, pos_opt, id) ==
    IF pos_opt # <<>>
    THEN LET p == pos_opt[1]
             new_qty == p.qty + rq.qty
             new_avg == ((p.avg_price * p.qty) + rq.total) \div new_qty
         IN  [p EXCEPT !.qty = new_qty, !.avg_price = new_avg]
    ELSE [id |-> id, user_id |-> rq.user, symbol |-> rq.symbol,
          qty |-> rq.qty, avg_price |-> rq.price]

BuyGetPosition(r) ==
    /\ req[r].pc = "pos_get" /\ req[r].kind = "buy"
    /\ \E ok \in StoreOk :
        /\ Count(ok)
        /\ IF ok
           THEN LET pos_opt == FindPosition(positions, req[r].user, req[r].symbol)
                IN  /\ req' = [req EXCEPT ![r] =
                                 [req[r] EXCEPT
                                    !.pos = <<BuyNewPosition(req[r], pos_opt, nextPid)>>,
                                    !.pc = "pos_upsert"]]
                    /\ nextPid' = IF pos_opt = <<>> THEN nextPid + 1 ELSE nextPid
           ELSE /\ req' = [req EXCEPT ![r] = Failed(req[r], "db_error")]
                /\ UNCHANGED nextPid
    /\ UNCHANGED <<accounts, positions, orders, ops, deposited>>

BuyUpsertPosition(r) ==
    /\ req[r].pc = "pos_upsert" /\ req[r].kind = "buy"
    /\ \E ok \in StoreOk :
        /\ Count(ok)
        /\ IF ok /\ UpsertAllowed(positions, req[r].pos[1])
           THEN /\ positions' = UpsertPosition(positions, req[r].pos[1])
                /\ req' = [req EXCEPT ![r] =
                             [req[r] EXCEPT !.pc = "set_cash", !.wrote = TRUE,
                                            !.cash = req[r].cash - req[r].total]]
           ELSE /\ req' = [req EXCEPT ![r] = Failed(req[r], "db_error")]
                /\ UNCHANGED positions
    /\ UNCHANGED <<accounts, orders, nextPid, ops, deposited>>

Order(rq) ==
    [user_id |-> rq.user, symbol |-> rq.symbol, side |-> rq.kind,
     qty |-> rq.qty, price |-> rq.price, total |-> rq.total]

TradeSetCash(r) ==
    /\ req[r].pc = "set_cash" /\ req[r].kind \in {"buy", "sell"}
    /\ \E ok \in StoreOk :
        /\ Count(ok)
        /\ IF ok
           THEN /\ accounts' = SetCash(accounts, req[r].user, req[r].cash)
                /\ req' = [req EXCEPT ![r] =
                             [req[r] EXCEPT !.pc = "order", !.wrote = TRUE]]
           ELSE /\ req' = [req EXCEPT ![r] = Failed(req[r], "db_error")]
                /\ UNCHANGED accounts
    /\ UNCHANGED <<positions, orders, nextPid, ops, deposited>>

TradeInsertOrder(r) ==
    /\ req[r].pc = "order"
    /\ \E ok \in StoreOk :
        /\ Count(ok)
        /\ orders' = IF ok THEN Append(orders, Order(req[r])) ELSE orders
        /\ req' = [req EXCEPT ![r] =
                     Finish([req[r] EXCEPT !.wrote = TRUE, !.faulted = @ \/ ~ok,
                                           !.sent = TradeEvents], "ok")]
    /\ UNCHANGED <<accounts, positions, nextPid, ops, deposited>>

----------------------------------------------------------------------------
(* trading_service::market_sell *)

SellQuoted(rq, qo) ==
    IF ~qo.ok
    THEN Finish([rq EXCEPT !.quote = qo], "quote_error")
    ELSE [rq EXCEPT !.quote = qo, !.price = qo.c, !.pc = "pos_get"]

MarketSell(r, u, s, q, qo) ==
    /\ CanStart(r)
    /\ LET sym == ToUpper(s)
           rq == NewReq(r, "sell", u, sym, q)
       IN  IF TrimIsEmpty(sym) \/ QtyInvalid(q)
           THEN Started(r, Finish(rq, "validation"))
           ELSE Started(r, SellQuoted(rq, qo))
    /\ UNCHANGED <<accounts, positions, orders, nextPid, faults, deposited>>

SellCheckNoLimit(rq, pos_opt) ==
    IF pos_opt = <<>> THEN Finish(rq, "no_position")
    ELSE [rq EXCEPT !.total = rq.price * rq.qty,
                    !.pos = <<[pos_opt[1] EXCEPT !.qty = @ - rq.qty]>>,
                    !.pc = "pos_write"]

SellCheck(rq, pos_opt) ==
    IF pos_opt = <<>> THEN Finish(rq, "no_position")
    ELSE IF rq.qty > pos_opt[1].qty THEN Finish(rq, "insufficient_shares")
    ELSE [rq EXCEPT !.total = rq.price * rq.qty,
                    !.pos = <<[pos_opt[1] EXCEPT !.qty = @ - rq.qty]>>,
                    !.pc = "pos_write"]

SellGetPosition(r) ==
    /\ req[r].pc = "pos_get" /\ req[r].kind = "sell"
    /\ \E ok \in StoreOk :
        /\ Count(ok)
        /\ req' = [req EXCEPT ![r] =
                     IF ok
                     THEN SellCheck(req[r],
                                    FindPosition(positions, req[r].user, req[r].symbol))
                     ELSE Failed(req[r], "db_error")]
    /\ UNCHANGED <<accounts, positions, orders, nextPid, ops, deposited>>

SellWritePositionDeleteChecked(r) ==
    /\ req[r].pc = "pos_write" /\ req[r].kind = "sell"
    /\ LET pos == req[r].pos[1] IN
       \E ok \in StoreOk :
        /\ Count(ok)
        /\ IF ok /\ (pos.qty = 0 \/ UpsertAllowed(positions, pos))
           THEN /\ positions' = IF pos.qty = 0 THEN DeletePosition(positions, pos.id)
                                ELSE UpsertPosition(positions, pos)
                /\ req' = [req EXCEPT ![r] =
                             [req[r] EXCEPT
                                !.remaining = IF pos.qty = 0 THEN <<>> ELSE <<pos>>,
                                !.pc = "acct_find", !.wrote = TRUE]]
           ELSE /\ req' = [req EXCEPT ![r] = Failed(req[r], "db_error")]
                /\ UNCHANGED positions
    /\ UNCHANGED <<accounts, orders, nextPid, ops, deposited>>

SellWritePosition(r) ==
    /\ req[r].pc = "pos_write" /\ req[r].kind = "sell"
    /\ LET pos == req[r].pos[1] IN
       \E ok \in StoreOk :
        /\ Count(ok)
        /\ IF pos.qty = 0
           THEN /\ positions' = IF ok THEN DeletePosition(positions, pos.id)
                                ELSE positions
                /\ req' = [req EXCEPT ![r] =
                             [req[r] EXCEPT !.remaining = <<>>, !.pc = "acct_find",
                                            !.wrote = @ \/ ok, !.faulted = @ \/ ~ok]]
           ELSE IF ok /\ UpsertAllowed(positions, pos)
                THEN /\ positions' = UpsertPosition(positions, pos)
                     /\ req' = [req EXCEPT ![r] =
                                  [req[r] EXCEPT !.remaining = <<pos>>,
                                                 !.pc = "acct_find", !.wrote = TRUE]]
                ELSE /\ req' = [req EXCEPT ![r] = Failed(req[r], "db_error")]
                     /\ UNCHANGED positions
    /\ UNCHANGED <<accounts, orders, nextPid, ops, deposited>>

----------------------------------------------------------------------------
(* trading_controller::post_trade_buy and post_trade_sell *)

\* The request is answered "Enter a valid quantity." without calling the
\* service.
QtyRejected(r, kind, u, s) ==
    /\ CanStart(r)
    /\ Started(r, Finish([NewReq(r, kind, u, s, 0) EXCEPT !.unparsed = TRUE],
                         "validation"))
    /\ UNCHANGED <<accounts, positions, orders, nextPid, faults, deposited>>

PostTradeBuy(r, u, s, form, qo) ==
    LET qty == ParseQty(form)
    IN  IF qty.ok THEN MarketBuy(r, u, s, qty.v, qo)
        ELSE QtyRejected(r, "buy", u, s)

PostTradeSell(r, u, s, form, qo) ==
    LET qty == ParseQty(form)
    IN  IF qty.ok THEN MarketSell(r, u, s, qty.v, qo)
        ELSE QtyRejected(r, "sell", u, s)

----------------------------------------------------------------------------
(* user_controller::post_funds and user_service::deposit_funds *)

AmountRefusedBelowZero(amount) == ~IsFinite(amount) \/ amount < 0

\* "!amount.is_finite() || amount <= 0.0"
AmountRefused(amount) == ~IsFinite(amount) \/ amount <= 0

\* total keeps the amount parsed, also of a refused request (history).
PostFunds(r, u, form) ==
    /\ CanStart(r)
    /\ LET amount == ParseAmount(form)
           rq == [NewReq(r, "deposit", u, "", 0) EXCEPT !.total = amount.v,
                                                        !.unparsed = ~amount.ok]
       IN  IF ~amount.ok THEN Started(r, Finish(rq, "bad_amount"))
           ELSE IF AmountRefused(amount.v) THEN Started(r, Finish(rq, "not_positive"))
           ELSE Started(r, [rq EXCEPT !.pc = "acct_find"])
    /\ UNCHANGED <<accounts, positions, orders, nextPid, faults, deposited>>

DepositSetCash(r) ==
    /\ req[r].pc = "set_cash" /\ req[r].kind = "deposit"
    /\ \E ok \in StoreOk :
        /\ Count(ok)
        /\ IF ok
           THEN /\ accounts' = SetCash(accounts, req[r].user, req[r].cash)
                /\ deposited' = [deposited EXCEPT ![req[r].user] = @ + req[r].total]
                /\ req' = [req EXCEPT ![r] =
                             Finish([req[r] EXCEPT !.wrote = TRUE,
                                        !.sent = <<"cashUpdated", "cashUpdated">>], "ok")]
           ELSE /\ req' = [req EXCEPT ![r] = Failed(req[r], "db_error")]
                /\ UNCHANGED <<accounts, deposited>>
    /\ UNCHANGED <<positions, orders, nextPid, ops>>

----------------------------------------------------------------------------
(* alerts_controller and alerts_service: each request is one store call *)

Served(sent) ==
    /\ apiSent' = apiSent + Len(sent)
    /\ calls' = calls + 1

Observe(id, o) ==
    obs' = IF id \in DOMAIN obs THEN [obs EXCEPT ![id] = Append(@, o)] ELSE obs

PostCreateAlert(u, s, c, t) ==
    /\ calls < MaxCalls
    /\ LET sym == ToUpper(s)
           cond == ToLower(c)
           target == ParseAmount(t)
       IN  IF cond # "above" /\ cond # "below"
           THEN /\ Served(<<>>)
                /\ UNCHANGED <<alerts, nextAid, obs, faults>>
           ELSE IF ~target.ok \/ ~IsFinite(target.v) \/ target.v <= 0
           THEN /\ Served(<<>>)
                /\ UNCHANGED <<alerts, nextAid, obs, faults>>
           ELSE \E ok \in StoreOk :
                /\ Count(ok)
                /\ nextAid' = nextAid + 1
                /\ IF ok
                   THEN /\ alerts' = alerts \cup
                              {[id |-> nextAid, user_id |-> u, symbol |-> sym,
                                condition |-> cond, target_price |-> target.v,
                                triggered |-> FALSE]}
                        /\ obs' = [i \in DOMAIN obs \cup {nextAid} |->
                                     IF i = nextAid THEN <<>> ELSE obs[i]]
                        /\ Served(<<"alertsUpdated">>)
                   ELSE /\ Served(<<>>)
                        /\ UNCHANGED <<alerts, obs>>
    /\ UNCHANGED <<mon, ticks>>

PostDeleteAlert(u, s, id) ==
    /\ calls < MaxCalls
    /\ \E ok \in StoreOk :
        /\ Count(ok)
        /\ IF ok
           THEN /\ alerts' = {a \in alerts :
                                ~(a.id = id /\ a.user_id = u /\ a.symbol = ToUpper(s))}
                /\ Served(<<"alertsUpdated">>)
           ELSE /\ Served(<<>>)
                /\ UNCHANGED alerts
    /\ UNCHANGED <<nextAid, mon, ticks, obs>>

PostDeleteAlertGlobal(u, id) ==
    /\ calls < MaxCalls
    /\ \E ok \in StoreOk :
        /\ Count(ok)
        /\ IF ok
           THEN /\ alerts' = {a \in alerts : ~(a.id = id /\ a.user_id = u)}
                /\ Served(<<"alertsUpdated">>)
           ELSE /\ Served(<<>>)
                /\ UNCHANGED alerts
    /\ UNCHANGED <<nextAid, mon, ticks, obs>>

SetTriggered(als, matched) ==
    (als \ matched) \cup {[a EXCEPT !.triggered = TRUE] : a \in matched}

TriggerFilterAnyUser(a, u, id) == a.id = id /\ a.triggered = FALSE

TriggerFilterAnyState(a, u, id) == a.id = id /\ a.user_id = u

TriggerFilter(a, u, id) == a.id = id /\ a.user_id = u /\ a.triggered = FALSE

PostTriggerAlert(u, id) ==
    /\ calls < MaxCalls
    /\ \E ok \in StoreOk :
        /\ Count(ok)
        /\ IF ok
           THEN LET matched == {a \in alerts : TriggerFilter(a, u, id)}
                IN  /\ alerts' = SetTriggered(alerts, matched)
                    /\ Served(<<"alertsUpdated">>)
                    /\ Observe(id, [by |-> u, ok |-> TRUE, matched |-> matched # {},
                                    seen |-> matched # {}])
           ELSE /\ Served(<<>>)
                /\ Observe(id, [by |-> u, ok |-> FALSE, matched |-> FALSE,
                                seen |-> FALSE])
                /\ UNCHANGED alerts
    /\ UNCHANGED <<nextAid, mon, ticks>>

----------------------------------------------------------------------------
(* services/alert_monitor: spawn_price_alert_monitor and run_tick *)

MonSleep ==
    [pc |-> "sleep", by_symbol |-> <<>>, todo |-> <<>>, price |-> 0,
     triggered_any |-> FALSE, result |-> "none", sent |-> <<>>,
     seen |-> {}, flipped |-> {}, failed |-> {},
     loaded |-> {}, fetched |-> <<>>]

RECURSIVE ById(_)
ById(S) ==
    IF S = {} THEN <<>>
    ELSE LET a == CHOOSE x \in S : \A y \in S : x.id <= y.id
         IN  <<a>> \o ById(S \ {a})

BySymbol(pending) ==
    [s \in {a.symbol : a \in pending} |-> ById({a \in pending : a.symbol = s})]

PriceUsable(price) == ~(~IsFinite(price) \/ price <= 0)

HitStrict(a, price) ==
    \/ a.condition = "above" /\ price > a.target_price
    \/ a.condition = "below" /\ price < a.target_price

Hit(a, price) ==
    \/ a.condition = "above" /\ price >= a.target_price
    \/ a.condition = "below" /\ price <= a.target_price

RECURSIVE Hits(_, _)
Hits(group, price) ==
    IF group = <<>> THEN <<>>
    ELSE (IF Hit(Head(group), price) THEN <<Head(group)>> ELSE <<>>)
         \o Hits(Tail(group), price)

\* The groups the loop "for (sym, group) in by_symbol" has still to visit once
\* it has taken the group of sym.
RemainingKeepsAll(by_symbol, sym) == by_symbol

Remaining(by_symbol, sym) ==
    [s \in DOMAIN by_symbol \ {sym} |-> by_symbol[s]]

\* One more call of the quote gateway for sym in this tick.
Fetched(fetched, sym) ==
    [s \in DOMAIN fetched \cup {sym} |->
        IF s = sym THEN (IF s \in DOMAIN fetched THEN fetched[s] + 1 ELSE 1)
        ELSE fetched[s]]

MonitorFilter(a, id) == a.id = id /\ a.triggered = FALSE

\* Where run_tick goes after an await: the next hit of the group, the next
\* symbol, or the end of the tick with its one notification.
MonContinueSendEach(m) ==
    IF m.todo # <<>> THEN [m EXCEPT !.pc = "update"]
    ELSE IF DOMAIN m.by_symbol # {} THEN [m EXCEPT !.pc = "quote"]
    ELSE [m EXCEPT !.pc = "sleep", !.result = "ok",
                   !.sent = [i \in 1..Cardinality(m.flipped) |-> "alertsUpdated"]]

MonContinueSkipsUpdates(m) ==
    IF DOMAIN m.by_symbol # {} THEN [m EXCEPT !.pc = "quote", !.todo = <<>>]
    ELSE [m EXCEPT !.pc = "sleep", !.result = "ok", !.todo = <<>>,
                   !.sent = IF m.triggered_any THEN <<"alertsUpdated">> ELSE <<>>]

MonContinue(m) ==
    IF m.todo # <<>> THEN [m EXCEPT !.pc = "update"]
    ELSE IF DOMAIN m.by_symbol # {} THEN [m EXCEPT !.pc = "quote"]
    ELSE [m EXCEPT !.pc = "sleep", !.result = "ok",
                   !.sent = IF m.triggered_any THEN <<"alertsUpdated">> ELSE <<>>]

\* The start of run_tick: the listing of the untriggered alerts.
TickList ==
    /\ mon.pc = "sleep"
    /\ \E ok \in StoreOk :
        /\ Count(ok)
        /\ mon' = IF ~ok THEN [MonSleep EXCEPT !.result = "tick_error"]
                  ELSE LET pending == {a \in alerts : a.triggered = FALSE}
                       IN  MonContinue([MonSleep EXCEPT
                                          !.by_symbol = BySymbol(pending),
                                          !.loaded = pending])
    /\ UNCHANGED <<alerts, nextAid, calls, apiSent, obs>>

\* A tick of a behaviour that counts its ticks.
TickLoad ==
    /\ ticks < MaxTicks
    /\ ticks' = ticks + 1
    /\ TickList

LoopTickSpawnsTicks ==
    /\ ticks' = (ticks + 1) % 2
    /\ \E ok \in StoreOk :
        /\ Count(ok)
        /\ mon' = IF ~ok THEN [MonSleep EXCEPT !.result = "tick_error"]
                  ELSE LET pending == {a \in alerts : a.triggered = FALSE}
                       IN  MonContinue([MonSleep EXCEPT
                                          !.by_symbol = BySymbol(pending),
                                          !.loaded = pending])
    /\ UNCHANGED <<alerts, nextAid, calls, apiSent, obs>>

\* A tick of the loop of spawn_price_alert_monitor, which never ends: here
\* ticks only tells one tick from the next (it counts modulo 2).
LoopTick ==
    /\ ticks' = (ticks + 1) % 2
    /\ TickList

TickQuoteFailureEndsTick(sym, qo) ==
    /\ mon.pc = "quote"
    /\ sym \in DOMAIN mon.by_symbol
    /\ LET group == mon.by_symbol[sym]
           rest == Remaining(mon.by_symbol, sym)
           fetched == Fetched(mon.fetched, sym)
       IN  mon' = IF ~qo.ok
                  THEN MonContinue([mon EXCEPT !.by_symbol = <<>>,
                                               !.fetched = fetched])
                  ELSE MonContinue([mon EXCEPT
                          !.by_symbol = rest,
                          !.fetched = fetched,
                          !.price = qo.c,
                          !.todo = IF PriceUsable(qo.c) THEN Hits(group, qo.c) ELSE <<>>,
                          !.seen = @ \cup {[alert |-> group[i], price |-> qo.c] :
                                             i \in 1..Len(group)}])
    /\ UNCHANGED <<alerts, nextAid, ticks, calls, apiSent, obs, faults>>

TickQuote(sym, qo) ==
    /\ mon.pc = "quote"
    /\ sym \in DOMAIN mon.by_symbol
    /\ LET group == mon.by_symbol[sym]
           rest == Remaining(mon.by_symbol, sym)
           fetched == Fetched(mon.fetched, sym)
       IN  mon' = IF ~qo.ok
                  THEN MonContinue([mon EXCEPT !.by_symbol = rest,
                                               !.fetched = fetched])
                  ELSE MonContinue([mon EXCEPT
                          !.by_symbol = rest,
                          !.fetched = fetched,
                          !.price = qo.c,
                          !.todo = IF PriceUsable(qo.c) THEN Hits(group, qo.c) ELSE <<>>,
                          !.seen = @ \cup {[alert |-> group[i], price |-> qo.c] :
                                             i \in 1..Len(group)}])
    /\ UNCHANGED <<alerts, nextAid, ticks, calls, apiSent, obs, faults>>

TickUpdate ==
    /\ mon.pc = "update"
    /\ LET a == Head(mon.todo) IN
       \E ok \in StoreOk :
        /\ Count(ok)
        /\ LET matched == IF ok THEN {x \in alerts : MonitorFilter(x, a.id)} ELSE {}
           IN  /\ alerts' = SetTriggered(alerts, matched)
               /\ mon' = MonContinue([mon EXCEPT
                            !.todo = Tail(@),
                            !.triggered_any = @ \/ ok,
                            !.flipped = IF matched # {} THEN @ \cup {a.id} ELSE @,
                            !.failed = IF ok THEN @ ELSE @ \cup {a.id}])
               /\ Observe(a.id, [by |-> "monitor", ok |-> ok, matched |-> matched # {},
                                 seen |-> ok])
    /\ UNCHANGED <<nextAid, ticks, calls, apiSent>>

----------------------------------------------------------------------------
(* controllers/realtime_controller: handle_trades_socket (and its twin
   handle_trades_multi_socket, which has the same loop) *)

Payloads == {"t1", "t2"}

\* What fh_read.next() can yield.
UpstreamItems ==
    {[kind |-> k, payload |-> p] : k \in {"text", "binary", "ping"}, p \in Payloads}
       \cup {[kind |-> k, payload |-> ""] : k \in {"pong", "close", "frame", "error", "end"}}

\* What client_ws.recv() can yield.
ClientItems ==
    {[kind |-> k, payload |-> ""] : k \in {"text", "close", "error", "end"}}

\* The relay's state: its position, whether the client socket was closed,
\* what it sent each way, and (history) the events its loop handled.
RelayStart ==
    [pc |-> "connecting", closed |-> FALSE,
     to_client |-> <<>>, to_upstream |-> <<>>, log |-> <<>>]

Event(src, item, ok) ==
    [src |-> src, kind |-> item.kind, payload |-> item.payload, sent |-> ok]

\* The end of a loop iteration that handled ev: break leaves the loop and
\* closes the client socket, anything else selects again.
Looped(rl, ev, break) ==
    [rl EXCEPT !.log = Append(@, ev),
               !.pc = IF break THEN "closed" ELSE "running",
               !.closed = break]

\* connect_async, then the subscribe message; on failure the error text is
\* sent to the client and its socket closed.
Connect(ok) ==
    /\ relay.pc = "connecting"
    /\ relay' = IF ok
                THEN [relay EXCEPT !.pc = "running",
                         !.to_upstream = <<[kind |-> "text", payload |-> "subscribe"]>>]
                ELSE [relay EXCEPT !.pc = "closed", !.closed = TRUE,
                         !.to_client = <<[kind |-> "text", payload |-> "error"]>>]
    /\ UNCHANGED <<ledgerVars, alertVars, faults, bus>>

\* The branch "_ = ping.tick()": ok tells whether the send to the client
\* succeeded.
PingTick(ok) ==
    /\ relay.pc = "running" /\ Len(relay.log) < MaxEvents
    /\ LET ping == [kind |-> "ping", payload |-> "ping"]
           rl == [relay EXCEPT !.to_client = IF ok THEN Append(@, ping) ELSE @]
       IN  relay' = Looped(rl, Event("timer", ping, ok), ~ok)
    /\ UNCHANGED <<ledgerVars, alertVars, faults, bus>>

UpstreamBreaksOnPongFailure(item, ok) ==
    \/ item.kind \in {"text", "binary", "ping"} /\ ~ok
    \/ item.kind \in {"close", "end", "error"}

\* The arms of "match fh_msg" that break.
UpstreamBreaks(item, ok) ==
    \/ item.kind \in {"text", "binary"} /\ ~ok
    \/ item.kind \in {"close", "end", "error"}

UpstreamMsgForwardsPing(item, ok) ==
    /\ relay.pc = "running" /\ Len(relay.log) < MaxEvents
    /\ LET rl == [relay EXCEPT
                     !.to_client =
                        IF ok THEN Append(@, [kind |-> item.kind, payload |-> item.payload])
                        ELSE @,
                     !.to_upstream =
                        IF item.kind = "ping" /\ ok
                        THEN Append(@, [kind |-> "pong", payload |-> item.payload])
                        ELSE @]
       IN  relay' = Looped(rl, Event("upstream", item, ok), UpstreamBreaks(item, ok))
    /\ UNCHANGED <<ledgerVars, alertVars, faults, bus>>

\* The branch "fh_msg = fh_read.next()": ok tells whether the send this item
\* causes (to the client, or the Pong to upstream) succeeded.
UpstreamMsg(item, ok) ==
    /\ relay.pc = "running" /\ Len(relay.log) < MaxEvents
    /\ LET rl == [relay EXCEPT
                     !.to_client =
                        IF item.kind \in {"text", "binary"} /\ ok
                        THEN Append(@, [kind |-> item.kind, payload |-> item.payload])
                        ELSE @,
                     !.to_upstream =
                        IF item.kind = "ping" /\ ok
                        THEN Append(@, [kind |-> "pong", payload |-> item.payload])
                        ELSE @]
       IN  relay' = Looped(rl, Event("upstream", item, ok), UpstreamBreaks(item, ok))
    /\ UNCHANGED <<ledgerVars, alertVars, faults, bus>>

\* The arms of "match client_msg" that break.
ClientBreaks(item) == item.kind \in {"close", "end", "error"}

\* The branch "client_msg = client_ws.recv()".
ClientMsg(item) ==
    /\ relay.pc = "running" /\ Len(relay.log) < MaxEvents
    /\ relay' = Looped(relay, Event("client", item, TRUE), ClientBreaks(item))
    /\ UNCHANGED <<ledgerVars, alertVars, faults, bus>>

----------------------------------------------------------------------------
(* The notification bus: the broadcast channel events_tx (which keeps the last
   BusCapacity values sent) and the event streams of sse_events *)

Subscribers == {"s1", "s2"}

EventNames == {"cashUpdated", "alertsUpdated"}

NoStream == [on |-> FALSE, from |-> 0, next |-> 0, out |-> <<>>]

\* sent: every value sent so far, in order (the channel itself retains its last
\* BusCapacity values); streams: per subscriber the receiver's position (the
\* number of values before the one it reads next) and, as history, the
\* position it subscribed at and the SSE events it yielded, each with the position of the value it carries
\* (at |-> 0 with the number of values missed for a "lagged" event).
BusStart == [sent |-> <<>>, streams |-> [s \in Subscribers |-> NoStream]]

\* The position of the oldest value the channel still retains.
Oldest(sent) == IF Len(sent) > BusCapacity THEN Len(sent) - BusCapacity ELSE 0

\* "let _ = state.events_tx.send(e)": a synchronous call that stores the value
\* and returns, whoever listens.
Send(e) ==
    /\ Len(bus.sent) < MaxPublished
    /\ bus' = [bus EXCEPT !.sent = Append(@, e)]
    /\ UNCHANGED <<ledgerVars, alertVars, faults, relay>>

\* sse_events: events_tx.subscribe() starts behind the last value sent.
Subscribe(s) ==
    /\ ~bus.streams[s].on
    /\ bus' = [bus EXCEPT !.streams[s] =
                  [on |-> TRUE, from |-> Len(bus.sent), next |-> Len(bus.sent),
                   out |-> <<>>]]
    /\ UNCHANGED <<ledgerVars, alertVars, faults, relay>>

LaggedSilently(st, sent) == [st EXCEPT !.next = Oldest(sent)]

\* rx.recv() returning Err(Lagged(n)): the receiver moves to the oldest value
\* retained and the stream yields the event "ping" with data "lagged".
Lagged(st, sent) ==
    [st EXCEPT !.next = Oldest(sent),
               !.out = Append(@, [event |-> "ping", data |-> "lagged", at |-> 0,
                                  missed |-> Oldest(sent) - st.next])]

\* rx.recv() returning Ok(name): the stream yields the event name with data "1".
Received(st, sent) ==
    [st EXCEPT !.next = @ + 1,
               !.out = Append(@, [event |-> sent[st.next + 1], data |-> "1",
                                  at |-> st.next + 1, missed |-> 0])]

\* One step of the stream of sse_events: rx.recv() completes when a value is
\* waiting or the receiver has lagged.
StreamNext(s) ==
    /\ bus.streams[s].on
    /\ bus.streams[s].next < Len(bus.sent)
    /\ bus' = [bus EXCEPT !.streams[s] =
                  IF @.next < Oldest(bus.sent) THEN Lagged(@, bus.sent)
                  ELSE Received(@, bus.sent)]
    /\ UNCHANGED <<ledgerVars, alertVars, faults, relay>>

----------------------------------------------------------------------------
(* The specifications *)

Init ==
    /\ accounts = <<>>
    /\ positions = {}
    /\ orders = <<>>
    /\ req = [r \in Reqs |-> IdleReq]
    /\ nextPid = 1
    /\ ops = 0
    /\ deposited = [u \in Users |-> 0]
    /\ faults = 0
    /\ alerts = {}
    /\ nextAid = 1
    /\ mon = MonSleep
    /\ ticks = 0
    /\ calls = 0
    /\ apiSent = 0
    /\ obs = <<>>
    /\ relay = RelayStart
    /\ bus = BusStart

Steps ==
    \/ \E r \in Reqs : AcctFind(r)
    \/ \E r \in Reqs : AcctInsert(r)
    \/ \E r \in Reqs : BuyGetPosition(r)
    \/ \E r \in Reqs : BuyUpsertPosition(r)
    \/ \E r \in Reqs : SellGetPosition(r)
    \/ \E r \in Reqs : SellWritePosition(r)
    \/ \E r \in Reqs : TradeSetCash(r)
    \/ \E r \in Reqs : TradeInsertOrder(r)
    \/ \E r \in Reqs : DepositSetCash(r)

\* The ledger under concurrent requests: requests arrive at any time and run
\* concurrently; their input passed the validation (the rejected inputs are
\* those of SeqSpec).
Starts ==
    \/ \E r \in Reqs, u \in Users, q \in Qtys \ {0}, qo \in QuoteOutcomes :
          MarketBuy(r, u, "aapl", q, qo)
    \/ \E r \in Reqs, u \in Users, q \in Qtys \ {0}, qo \in QuoteOutcomes :
          MarketSell(r, u, "aapl", q, qo)
    \/ \E r \in Reqs, u \in Users : PostFunds(r, u, "2500")

Next == (Starts \/ Steps) /\ UNCHANGED <<alertVars, relay, bus>>

Spec == Init /\ [][Next]_vars

\* The ledger with one request at a time, with any input: a request starts
\* when no other is in flight.  RejectedInputs are the (symbol, qty) forms with
\* a blank symbol or a quantity that is not a positive integer; the gateway
\* would answer them as it answers any request.
RejectedInputs ==
    {<<" ", "1">>, <<" ", "0">>} \cup {<<"aapl", f>> : f \in QtyForms \ {"1", " 2 "}}

UsualQuote == [ok |-> TRUE, c |-> 2500]

SeqStarts ==
    \/ \E u \in Users, f \in {"1", " 2 "}, qo \in QuoteOutcomes :
          PostTradeBuy("r1", u, "aapl", f, qo)
    \/ \E u \in Users, f \in {"1", " 2 "}, qo \in QuoteOutcomes :
          PostTradeSell("r1", u, "aapl", f, qo)
    \/ \E u \in Users, in \in RejectedInputs :
          PostTradeBuy("r1", u, in[1], in[2], UsualQuote)
    \/ \E u \in Users, in \in RejectedInputs :
          PostTradeSell("r1", u, in[1], in[2], UsualQuote)
    \/ \E u \in Users, f \in FormAmounts : PostFunds("r1", u, f)

SeqNext == (SeqStarts \/ Steps) /\ UNCHANGED <<alertVars, relay, bus>>

SeqSpec == Init /\ [][SeqNext]_vars

\* Trades of one user on one symbol racing each other.
RaceStarts ==
    \/ \E r \in Reqs, q \in Qtys, p \in {2500, 7500} :
          MarketBuy(r, "u1", "aapl", q, [ok |-> TRUE, c |-> p])
    \/ \E r \in Reqs, q \in Qtys, p \in {2500, 7500} :
          MarketSell(r, "u1", "aapl", q, [ok |-> TRUE, c |-> p])

RaceNext == (RaceStarts \/ Steps) /\ UNCHANGED <<alertVars, relay, bus>>

RaceSpec == Init /\ [][RaceNext]_vars

\* Trades on different (user, symbol) keys racing each other: a request starts
\* beside a request in flight only with another user or another symbol.
KeyFree(u, s) ==
    \A x \in Reqs :
        Active(req[x]) => <<req[x].user, req[x].symbol>> # <<u, ToUpper(s)>>

KeysStarts ==
    \/ \E r \in Reqs, u \in Users, s \in {"aapl", "tsla"}, q \in Qtys \ {0},
          p \in {2500, 7500} :
          KeyFree(u, s) /\ MarketBuy(r, u, s, q, [ok |-> TRUE, c |-> p])
    \/ \E r \in Reqs, u \in Users, s \in {"aapl", "tsla"}, q \in Qtys \ {0},
          p \in {2500, 7500} :
          KeyFree(u, s) /\ MarketSell(r, u, s, q, [ok |-> TRUE, c |-> p])

KeysNext == (KeysStarts \/ Steps) /\ UNCHANGED <<alertVars, relay, bus>>

KeysSpec == Init /\ [][KeysNext]_vars

\* The alerts: the alert requests and the monitor task.
AlertIds == 1..MaxCalls

AlertNext ==
    /\ \/ \E u \in Users, s \in AlertSymbolInputs, c \in ConditionInputs,
             t \in TargetInputs : PostCreateAlert(u, s, c, t)
       \/ \E u \in Users, s \in AlertSymbolInputs, id \in AlertIds :
             PostDeleteAlert(u, s, id)
       \/ \E u \in Users, id \in AlertIds : PostDeleteAlertGlobal(u, id)
       \/ \E u \in Users, id \in AlertIds : PostTriggerAlert(u, id)
       \/ TickLoad
       \/ \E sym \in {"AAPL", "TSLA"}, qo \in AlertQuoteOutcomes : TickQuote(sym, qo)
       \/ TickUpdate
    /\ UNCHANGED <<ledgerVars, relay, bus>>

AlertSpec == Init /\ [][AlertNext]_vars

\* One realtime relay from its connection to upstream to its end.
RelayNext ==
    \/ \E ok \in BOOLEAN : Connect(ok)
    \/ \E ok \in BOOLEAN : PingTick(ok)
    \/ \E item \in UpstreamItems, ok \in BOOLEAN : UpstreamMsg(item, ok)
    \/ \E item \in ClientItems : ClientMsg(item)

RelaySpec == Init /\ [][RelayNext]_vars

\* Two concurrent trades of a user who holds a position already: the store as
\* one buy of 1 AAPL at 2500 leaves it.
HeldInit ==
    /\ accounts = ("u1" :> StartingCash - 2500)
    /\ positions = {[id |-> 1, user_id |-> "u1", symbol |-> "AAPL",
                     qty |-> 1, avg_price |-> 2500]}
    /\ orders = <<[user_id |-> "u1", symbol |-> "AAPL", side |-> "buy",
                   qty |-> 1, price |-> 2500, total |-> 2500]>>
    /\ req = [r \in Reqs |-> IdleReq]
    /\ nextPid = 2
    /\ ops = 0
    /\ deposited = [u \in Users |-> 0]
    /\ faults = 0
    /\ alerts = {}
    /\ nextAid = 1
    /\ mon = MonSleep
    /\ ticks = 0
    /\ calls = 0
    /\ apiSent = 0
    /\ obs = <<>>
    /\ relay = RelayStart
    /\ bus = BusStart

HeldSpec == HeldInit /\ [][RaceNext]_vars

\* The monitor loop alone, tick after tick, over alerts that are only created.
LoopQuotes == {[ok |-> FALSE, c |-> 0], [ok |-> TRUE, c |-> 1000], [ok |-> TRUE, c |-> 2500]}

LoopNext ==
    /\ \/ \E s \in AlertSymbolInputs : PostCreateAlert("u1", s, "Above", "2500")
       \/ LoopTick
       \/ \E sym \in {"AAPL", "TSLA"}, qo \in LoopQuotes : TickQuote(sym, qo)
       \/ TickUpdate
    /\ UNCHANGED <<ledgerVars, relay, bus>>

LoopSpec == Init /\ [][LoopNext]_vars

\* The monitor task is scheduled again and again, and each call it awaits
\* (the interval, the store, the quote gateway) returns.
MonitorStep ==
    /\ \/ LoopTick
       \/ \E sym \in {"AAPL", "TSLA"}, qo \in LoopQuotes : TickQuote(sym, qo)
       \/ TickUpdate
    /\ UNCHANGED <<ledgerVars, relay, bus>>

LoopLiveSpec == LoopSpec /\ WF_vars(MonitorStep)

\* Deposits, one at a time, of every kind of amount.
FundsNext ==
    /\ \/ \E u \in Users, f \in FundsForms : PostFunds("r1", u, f)
       \/ \E r \in Reqs : AcctFind(r) \/ AcctInsert(r) \/ DepositSetCash(r)
    /\ UNCHANGED <<alertVars, relay, bus>>

FundsSpec == Init /\ [][FundsNext]_vars

\* The publishers of the bus and its subscribers.
BusNext ==
    \/ \E e \in EventNames : Send(e)
    \/ \E s \in Subscribers : Subscribe(s)
    \/ \E s \in Subscribers : StreamNext(s)

BusSpec == Init /\ [][BusNext]_vars

\* The requests of one user, Actor, beside the data of the others: every user
\* trades and creates alerts, one ledger request at a time; the delete and
\* trigger requests, which name an alert by its id, all come from Actor.  The
\* monitor, which acts for no user, is left out.
\* At most MaxOps + 1 requests are served in all.
Actor == "u1"

RequestsLeft == ops + calls <= MaxOps

OwnerRequests ==
    \/ /\ \/ \E u \in Users : PostTradeBuy("r1", u, "aapl", "1", UsualQuote)
          \/ \E u \in Users : PostTradeSell("r1", u, "aapl", "1", UsualQuote)
          \/ \E u \in Users : PostFunds("r1", u, "2500")
          \/ Steps
       /\ UNCHANGED <<alertVars, relay, bus>>
    \/ /\ \/ \E u \in Users : PostCreateAlert(u, "aapl", "Above", "2500")
          \/ \E id \in AlertIds : PostDeleteAlert(Actor, "aapl", id)
          \/ \E id \in AlertIds : PostDeleteAlertGlobal(Actor, id)
          \/ \E id \in AlertIds : PostTriggerAlert(Actor, id)
       /\ UNCHANGED <<ledgerVars, relay, bus>>

OwnerNext ==
    /\ RequestsLeft \/ (ops' = ops /\ calls' = calls)
    /\ OwnerRequests

OwnerSpec == Init /\ [][OwnerNext]_vars

----------------------------------------------------------------------------
(* The claims about the ledger *)

\* The cash of a user's account in a store; a user without an account record
\* holds the starting cash the record is created with.
CashOf(accs, u) == IF u \in DOMAIN accs THEN accs[u] ELSE StartingCash

\* A trade request that has returned and ran with no other request beside it.
DoneAlone(r, kind) ==
    /\ req[r].pc = "done"
    /\ req[r].kind = kind
    /\ req[r].alone
    /\ req[r].result # "validation"

\* C3: every account's cash is >= 0 after each committed write, under any
\* interleaving of deposits, buys and sells and any quoted price.
CashNonNegative == \A u \in DOMAIN accounts : accounts[u] >= 0

\* C4: every stored position has qty > 0, under any interleaving of buys and
\* sells; a sell that brings the quantity to zero removes the record.
PositionQtyPositive == \A p \in positions : p.qty > 0

\* C4 witness: a sell racing another request sold the whole position and
\* the record is gone.
SoldOutInRace ==
    \E r \in Reqs :
        /\ req[r].pc = "done" /\ req[r].kind = "sell" /\ req[r].result = "ok"
        /\ ~req[r].alone
        /\ req[r].remaining = <<>>
        /\ FindPosition(positions, req[r].user, req[r].symbol) = <<>>

\* C5: a buy of qty > 0 at price p that ran alone with cash >= p*qty succeeds
\* (unless a store call failed) and leaves cash = oldCash - p*qty, position
\* qty = oldQty + qty and avgPrice the qty-weighted mean (p for a new position).
BuyPostcondition ==
    \A r \in Reqs :
        LET rq == req[r]
            p == rq.quote.c
            oldCash == CashOf(rq.pre.accounts, rq.user)
            old == FindPosition(rq.pre.positions, rq.user, rq.symbol)
            new == FindPosition(positions, rq.user, rq.symbol)
            oldQty == IF old = <<>> THEN 0 ELSE old[1].qty
        IN  DoneAlone(r, "buy") /\ rq.quote.ok /\ oldCash >= p * rq.qty
            => /\ ~rq.faulted => rq.result = "ok"
               /\ rq.result = "ok" =>
                    /\ rq.user \in DOMAIN accounts
                    /\ accounts[rq.user] = oldCash - p * rq.qty
                    /\ new # <<>>
                    /\ new[1].qty = oldQty + rq.qty
                    /\ new[1].avg_price =
                         IF old = <<>> THEN p
                         ELSE (old[1].avg_price * old[1].qty + p * rq.qty)
                                 \div (old[1].qty + rq.qty)

\* C5 witness: a buy that ran alone added to a position bought at another price.
BoughtMoreAtAnotherPrice ==
    \E r \in Reqs :
        LET old == FindPosition(req[r].pre.positions, req[r].user, req[r].symbol)
        IN  /\ DoneAlone(r, "buy") /\ req[r].result = "ok"
            /\ old # <<>>
            /\ old[1].avg_price # req[r].quote.c
            /\ req[r].quote.c > 0

\* C6: a sell of 0 < qty <= heldQty at price p that ran alone leaves cash =
\* oldCash + p*qty; the position is absent if qty = heldQty, and otherwise has
\* qty = heldQty - qty and its avgPrice unchanged.
SellPostcondition ==
    \A r \in Reqs :
        LET rq == req[r]
            p == rq.quote.c
            oldCash == CashOf(rq.pre.accounts, rq.user)
            old == FindPosition(rq.pre.positions, rq.user, rq.symbol)
            new == FindPosition(positions, rq.user, rq.symbol)
        IN  DoneAlone(r, "sell") /\ rq.result = "ok" /\ p > 0
            => /\ old # <<>> /\ rq.qty <= old[1].qty
               /\ accounts[rq.user] = oldCash + p * rq.qty
               /\ IF rq.qty = old[1].qty
                  THEN new = <<>>
                  ELSE /\ new # <<>>
                       /\ new[1].qty = old[1].qty - rq.qty
                       /\ new[1].avg_price = old[1].avg_price

\* C7: a sell whose qty exceeds the held quantity, or for a symbol with no
\* position, returns the insufficient-shares (resp. no-position) error, leaves
\* accounts, positions and orders unchanged and publishes no event.
SellRejectedLeavesState ==
    \A r \in Reqs :
        LET rq == req[r]
            old == FindPosition(rq.pre.positions, rq.user, rq.symbol)
        IN  DoneAlone(r, "sell") /\ (old = <<>> \/ rq.qty > old[1].qty)
            => /\ rq.result # "ok"
               /\ rq.quote.ok /\ ~rq.faulted =>
                    rq.result = IF old = <<>> THEN "no_position"
                                ELSE "insufficient_shares"
               /\ ~rq.wrote
               /\ rq.sent = <<>>
               /\ accounts = rq.pre.accounts
               /\ positions = rq.pre.positions
               /\ orders = rq.pre.orders

\* C7 witness: a sell of more than the held quantity has been rejected.
OversoldRejected ==
    \E r \in Reqs :
        /\ DoneAlone(r, "sell")
        /\ req[r].result = "insufficient_shares"
        /\ FindPosition(positions, req[r].user, req[r].symbol) # <<>>

\* C8 as claimed: a buy whose total exceeds the account's cash returns the
\* insufficient-funds error and leaves accounts, positions and orders as they
\* were, also for a user who had no account record, and publishes no event.
BuyRejectedLeavesState ==
    \A r \in Reqs :
        LET rq == req[r]
        IN  /\ DoneAlone(r, "buy") /\ rq.quote.ok
            /\ CashOf(rq.pre.accounts, rq.user) < rq.quote.c * rq.qty
            => /\ rq.result # "ok"
               /\ ~rq.faulted => rq.result = "balance"
               /\ rq.sent = <<>>
               /\ accounts = rq.pre.accounts
               /\ positions = rq.pre.positions
               /\ orders = rq.pre.orders

\* C8 amended: such a buy returns the insufficient-funds error, leaves
\* positions, orders and every account's cash unchanged and publishes no
\* event; the only write it may make is the account record of a user who had
\* none, created with the starting cash.
BuyRejectedLeavesCash ==
    \A r \in Reqs :
        LET rq == req[r]
        IN  /\ DoneAlone(r, "buy") /\ rq.quote.ok
            /\ CashOf(rq.pre.accounts, rq.user) < rq.quote.c * rq.qty
            => /\ rq.result # "ok"
               /\ ~rq.faulted => rq.result = "balance"
               /\ rq.sent = <<>>
               /\ DOMAIN accounts \subseteq DOMAIN rq.pre.accounts \cup {rq.user}
               /\ \A u \in Users : CashOf(accounts, u) = CashOf(rq.pre.accounts, u)
               /\ \A u \in DOMAIN rq.pre.accounts : u \in DOMAIN accounts
               /\ positions = rq.pre.positions
               /\ orders = rq.pre.orders

\* C8 witness: a user without an account record was refused a buy for lack
\* of cash.
NewUserRefused ==
    \E r \in Reqs :
        /\ DoneAlone(r, "buy")
        /\ req[r].result = "balance"
        /\ req[r].user \notin DOMAIN req[r].pre.accounts

\* C9: a buy or sell never executes on an unusable quote: when the gateway
\* fails or returns a price <= 0 the trade fails, writes no account, position
\* or order and publishes no event.
UnusableQuoteNeverTrades ==
    \A r \in Reqs :
        LET rq == req[r]
        IN  /\ rq.pc = "done" /\ rq.kind \in {"buy", "sell"}
            /\ rq.result # "validation"
            /\ (~rq.quote.ok \/ rq.quote.c <= 0)
            => /\ rq.result # "ok"
               /\ ~rq.wrote
               /\ rq.sent = <<>>

----------------------------------------------------------------------------
(* The claims about the alerts *)

\* The attempts on alert id that changed it from untriggered to triggered.
Flips(o) == {i \in 1..Len(o) : o[i].matched}

\* C1: when two trigger attempts (two trigger_alert calls of the owner, or one
\* of them and one conditional update of a monitor tick) were made on an
\* alert, exactly one of the callers observes "newly triggered", the other
\* "already triggered", and the alert ends triggered.
TwoAttemptsOneWinner ==
    \A a \in alerts :
        LET o == obs[a.id]
        IN  /\ Len(o) = 2
            /\ \A i \in 1..2 : o[i].ok /\ o[i].by \in {a.user_id, "monitor"}
            => /\ a.triggered
               /\ Cardinality({i \in 1..2 : o[i].seen}) = 1

\* C2: an alert that has triggered = true never has triggered = false later,
\* and over the life of an alert record at most one attempt changes it from
\* untriggered to triggered.
TriggeredIsFinal ==
    [][ /\ \A a \in alerts : a.triggered =>
              \A b \in alerts' : b.id = a.id => b.triggered
        /\ \A id \in DOMAIN obs' : Cardinality(Flips(obs'[id])) <= 1 ]_vars

\* C2 witness: a triggered alert on which a later attempt was made that found
\* it triggered already.
TriggeredAttemptedAgain ==
    \E a \in alerts :
        /\ a.triggered
        /\ Len(obs[a.id]) >= 2
        /\ obs[a.id][1].matched
        /\ obs[a.id][2].ok

\* The condition of alert a holds at price P, as the specification states it.
ShouldTrigger(a, P) ==
    /\ P > 0
    /\ \/ a.condition = "above" /\ P >= a.target_price
       \/ a.condition = "below" /\ P <= a.target_price

\* C10: an alert evaluated in a tick against a fetched price P is triggered in
\* that tick only if P > 0 and P is on the right side of its target (>= for
\* above, <= for below), and when that holds the tick triggers it, unless the
\* store failed the update, the alert was deleted or a manual trigger got to it
\* first; at P <= 0 no alert is triggered.
TickTriggersIffHit ==
    \A e \in mon.seen :
        LET id == e.alert.id
            stored == {a \in alerts : a.id = id}
        IN  (\A i \in 1..Len(mon.todo) : mon.todo[i].id # id)
            => /\ id \in mon.flipped => ShouldTrigger(e.alert, e.price)
               /\ ShouldTrigger(e.alert, e.price) /\ id \notin mon.failed
                    => \A a \in stored : a.triggered
               /\ ShouldTrigger(e.alert, e.price) /\ id \notin mon.failed
                      /\ id \notin mon.flipped
                    => \/ stored = {}
                       \/ \E i \in 1..Len(obs[id]) :
                             obs[id][i].matched /\ obs[id][i].by # "monitor"

\* C10 witness: a tick has triggered an alert at a price equal to its target.
TriggeredAtTarget ==
    \E e \in mon.seen :
        /\ e.price = e.alert.target_price
        /\ e.alert.id \in mon.flipped
        /\ \E a \in alerts : a.id = e.alert.id /\ a.triggered

\* The number of calls of the quote gateway the current tick has made.
RECURSIVE SumOver(_, _)
SumOver(f, S) ==
    IF S = {} THEN 0
    ELSE LET x == CHOOSE y \in S : TRUE IN f[x] + SumOver(f, S \ {x})

\* C11: in one tick with N pending alerts over K distinct symbols the quote
\* gateway is called at most once for each distinct symbol, only for symbols
\* of pending alerts, and so at most K times.
QuoteOncePerSymbol ==
    LET symbols == {a.symbol : a \in mon.loaded}
    IN  /\ DOMAIN mon.fetched \subseteq symbols
        /\ \A sym \in DOMAIN mon.fetched : mon.fetched[sym] <= 1
        /\ SumOver(mon.fetched, DOMAIN mon.fetched) <= Cardinality(symbols)

\* C11 witness: a tick that loaded two pending alerts of one symbol has
\* finished having called the gateway for that symbol.
TwoAlertsOneFetch ==
    /\ mon.pc = "sleep" /\ mon.result = "ok"
    /\ \E a, b \in mon.loaded :
          /\ a.id # b.id /\ a.symbol = b.symbol
          /\ a.symbol \in DOMAIN mon.fetched

\* C12: a monitor tick publishes alertsUpdated at most once, whatever the
\* number of alerts it triggers, nothing before its end, and exactly once when
\* at least one alert was newly triggered in the tick.
TickPublishesOnce ==
    /\ Len(mon.sent) <= 1
    /\ \A i \in 1..Len(mon.sent) : mon.sent[i] = "alertsUpdated"
    /\ mon.pc # "sleep" => mon.sent = <<>>
    /\ mon.pc = "sleep" /\ mon.result = "ok" /\ mon.flipped # {}
         => mon.sent = <<"alertsUpdated">>

\* C12 witness: a tick that triggered two alerts has ended with one event.
TwoTriggeredOneEvent ==
    /\ mon.pc = "sleep" /\ mon.result = "ok"
    /\ Cardinality(mon.flipped) >= 2
    /\ mon.sent = <<"alertsUpdated">>

----------------------------------------------------------------------------
(* The claims about concurrent requests *)

\* The stored positions without their document ids.
Strip(ps) ==
    {[user_id |-> p.user_id, symbol |-> p.symbol, qty |-> p.qty,
      avg_price |-> p.avg_price] : p \in ps}

Put(accs, u, cash) ==
    [x \in DOMAIN accs \cup {u} |-> IF x = u THEN cash ELSE accs[x]]

\* The store a trade request leaves when it runs from store st with no other
\* request beside it and no store failure: the reference of a serial
\* execution.
SerialTrade(st, rq) ==
    LET price == rq.quote.c
        total == price * rq.qty
        cash == CashOf(st.accounts, rq.user)
        old == FindPosition(st.positions, rq.user, rq.symbol)
        others == {p \in st.positions :
                     ~(p.user_id = rq.user /\ p.symbol = rq.symbol)}
        order == [user_id |-> rq.user, symbol |-> rq.symbol, side |-> rq.kind,
                  qty |-> rq.qty, price |-> price, total |-> total]
    IN  IF ~rq.quote.ok THEN st
        ELSE IF rq.kind = "buy"
        THEN IF cash < total
             THEN [st EXCEPT !.accounts = Put(st.accounts, rq.user, cash)]
             ELSE [accounts |-> Put(st.accounts, rq.user, cash - total),
                   positions |-> others \cup
                      {[user_id |-> rq.user, symbol |-> rq.symbol,
                        qty |-> (IF old = <<>> THEN 0 ELSE old[1].qty) + rq.qty,
                        avg_price |-> IF old = <<>> THEN price
                                      ELSE (old[1].avg_price * old[1].qty + total)
                                              \div (old[1].qty + rq.qty)]},
                   orders |-> Append(st.orders, order)]
        ELSE IF old = <<>> \/ rq.qty > old[1].qty THEN st
        ELSE [accounts |-> Put(st.accounts, rq.user, cash + total),
              positions |-> others \cup
                 (IF rq.qty = old[1].qty THEN {}
                  ELSE {[old[1] EXCEPT !.qty = @ - rq.qty]}),
              orders |-> Append(st.orders, order)]

\* The two requests, the only ones so far, ran beside each other on different
\* (user, symbol) keys, met no store failure and have returned.
RacedOnDifferentKeys ==
    /\ ops = 2
    /\ \A r \in Reqs :
          /\ req[r].pc = "done" /\ req[r].kind \in {"buy", "sell"}
          /\ ~req[r].alone /\ ~req[r].faulted
    /\ <<req["r1"].user, req["r1"].symbol>> # <<req["r2"].user, req["r2"].symbol>>

\* C13: two concurrent trade requests on different (user, symbol) keys leave
\* the accounts, positions and orders that one of the two serial executions of
\* the requests leaves.
DifferentKeysSerializable ==
    RacedOnDifferentKeys =>
        LET now == [accounts |-> accounts, positions |-> Strip(positions),
                    orders |-> orders]
            r1 == req["r1"]
            r2 == req["r2"]
        IN  \/ now = SerialTrade(SerialTrade(EmptySnapshot, r1), r2)
            \/ now = SerialTrade(SerialTrade(EmptySnapshot, r2), r1)

\* C14: get_or_create_account is atomic under concurrent first access: with
\* no store failure no call of it fails, whatever the interleaving of the
\* calls for a user that has no account (the insert of the account record
\* never meets a record inserted by a concurrent call).
GetOrCreateNeverFails ==
    faults = 0 =>
        \A r \in Reqs : req[r].result # "db_error_duplicate_key"

----------------------------------------------------------------------------
(* The claims about the trade requests *)

\* C15: a buy or sell whose qty is unparsable, zero or negative, or whose
\* symbol is blank, is rejected with a validation error before any quote is
\* fetched, leaves accounts, positions and orders unchanged and publishes no
\* event.
InvalidTradeRejected ==
    \A r \in Reqs :
        LET rq == req[r]
        IN  /\ rq.pc = "done" /\ rq.kind \in {"buy", "sell"} /\ rq.alone
            /\ (rq.unparsed \/ rq.qty <= 0 \/ rq.symbol \in {"", " "})
            => /\ rq.result = "validation"
               /\ rq.quote = NoQuote
               /\ ~rq.wrote
               /\ rq.sent = <<>>
               /\ accounts = rq.pre.accounts
               /\ positions = rq.pre.positions
               /\ orders = rq.pre.orders

\* C15 witness: a trade of a positive quantity with a blank symbol has been
\* rejected while a position was held.
BlankSymbolRejected ==
    \E r \in Reqs :
        /\ req[r].pc = "done" /\ req[r].kind \in {"buy", "sell"}
        /\ req[r].symbol = " " /\ req[r].qty > 0
        /\ req[r].result = "validation"
        /\ positions # {}

\* C16: the order log matches the trades: a successful buy or sell appends
\* exactly one order with the trade's user, symbol, side, qty, fill price and
\* total = price*qty, a failed trade appends none, and the orders stored
\* before stay as they were.
OrdersMatchTrades ==
    \A r \in Reqs :
        LET rq == req[r]
        IN  DoneAlone(r, rq.kind) /\ rq.kind \in {"buy", "sell"}
            => orders = IF rq.result = "ok"
                        THEN Append(rq.pre.orders,
                                    [user_id |-> rq.user, symbol |-> rq.symbol,
                                     side |-> rq.kind, qty |-> rq.qty,
                                     price |-> rq.quote.c,
                                     total |-> rq.quote.c * rq.qty])
                        ELSE rq.pre.orders

\* How many times event e is in the sequence sent.
Times(sent, e) == Cardinality({i \in 1..Len(sent) : sent[i] = e})

\* C17: a successful buy or sell publishes each of cashUpdated,
\* positionUpdated and ordersUpdated exactly once, and nothing before its
\* position, cash and order writes have been issued; a trade that returns an
\* error publishes none of them.
TradePublishesThree ==
    \A r \in Reqs :
        LET rq == req[r]
        IN  rq.kind \in {"buy", "sell"}
            => /\ rq.pc # "done" => rq.sent = <<>>
               /\ rq.pc = "done" /\ rq.result # "ok" => rq.sent = <<>>
               /\ rq.pc = "done" /\ rq.result = "ok"
                    => /\ Len(rq.sent) = 3
                       /\ \A e \in {"cashUpdated", "positionUpdated", "ordersUpdated"} :
                             Times(rq.sent, e) = 1

\* C17 witness: a sell racing another request has succeeded and published.
SellPublished ==
    \E r \in Reqs :
        /\ req[r].pc = "done" /\ req[r].kind = "sell" /\ req[r].result = "ok"
        /\ ~req[r].alone
        /\ Len(req[r].sent) = 3

\* The sum of field f over the orders of user u with side side (and symbol
\* sym, unless sym is "*").
RECURSIVE OrderSum(_, _, _, _, _)
OrderSum(os, u, side, sym, f) ==
    IF os = <<>> THEN 0
    ELSE LET o == Head(os)
             counted == /\ o.user_id = u /\ o.side = side
                        /\ (sym = "*" \/ o.symbol = sym)
         IN  (IF counted THEN o[f] ELSE 0) + OrderSum(Tail(os), u, side, sym, f)

\* C18: with the requests executed one at a time and no store failure, after
\* every request the ledger agrees with the order log: cash = 10,000 + the
\* deposits - the buy totals + the sell totals, and for each symbol the
\* position qty = bought qty - sold qty, the position being absent exactly
\* when that difference is 0.
LedgerMatchesOrders ==
    faults = 0 /\ Quiet =>
        \A u \in Users :
            /\ CashOf(accounts, u) =
                  StartingCash + deposited[u]
                     - OrderSum(orders, u, "buy", "*", "total")
                     + OrderSum(orders, u, "sell", "*", "total")
            /\ \A sym \in {"AAPL", "TSLA", " "} :
                  LET held == OrderSum(orders, u, "buy", sym, "qty")
                                 - OrderSum(orders, u, "sell", sym, "qty")
                      pos == FindPosition(positions, u, sym)
                  IN  /\ pos = <<>> <=> held = 0
                      /\ pos # <<>> => pos[1].qty = held

\* C18 witness: a user has bought shares and sold them all at another price,
\* one request at a time and with no store failure.
BoughtAndSoldOut ==
    /\ faults = 0 /\ Quiet /\ positions = {}
    /\ \E u \in Users :
          /\ OrderSum(orders, u, "buy", "AAPL", "qty") > 0
          /\ OrderSum(orders, u, "sell", "AAPL", "qty") > 0
          /\ accounts[u] # StartingCash

----------------------------------------------------------------------------
(* The claim about ownership *)

\* The account, positions and orders owned by user u.
LedgerOf(u) ==
    LET Owned(o) == o.user_id = u
    IN  <<IF u \in DOMAIN accounts THEN <<accounts[u]>> ELSE <<>>,
          {p \in positions : p.user_id = u},
          SelectSeq(orders, Owned)>>

\* C19: an operation performed for user A leaves every account, position,
\* order and alert owned by another user unchanged: the ledger data of a user
\* change only in a step of a request of that user, and a trigger or delete
\* request of Actor naming the alert of another user neither modifies nor
\* removes it.
OthersUntouched ==
    [][ /\ \A u \in Users :
              LedgerOf(u)' # LedgerOf(u)
                 => \E r \in Reqs : /\ req[r].user = u /\ Active(req[r])
                                    /\ req'[r] # req[r]
        /\ \A a \in alerts :
              a.user_id # Actor
                 => a \in alerts' ]_vars

\* C19 witness: Actor has called trigger_alert with the id of an alert of
\* another user, who also holds a position, and the alert is stored as it was.
ForeignAlertKept ==
    \E a \in alerts :
        /\ a.user_id # Actor /\ ~a.triggered
        /\ \E i \in 1..Len(obs[a.id]) :
              obs[a.id][i].by = Actor /\ obs[a.id][i].ok /\ ~obs[a.id][i].matched
        /\ \E p \in positions : p.user_id = a.user_id

----------------------------------------------------------------------------
(* The realtime relay *)

\* The events the relay ends on: upstream error, Close or end-of-stream; client
\* Close, error or end-of-stream; a failed send to the client.
EndsRelay(ev) ==
    \/ ev.src = "upstream" /\ ev.kind \in {"error", "close", "end"}
    \/ ev.src = "client" /\ ev.kind \in {"close", "error", "end"}
    \/ ev.src = "upstream" /\ ev.kind \in {"text", "binary"} /\ ~ev.sent
    \/ ev.src = "timer" /\ ~ev.sent

\* C20: a running relay that handles an event terminates, with the client
\* socket closed, exactly when the event is an upstream error, Close or
\* end-of-stream, a client Close, error or end-of-stream, or a failed send to
\* the client; every other event (upstream Ping or Pong, another client
\* message, a failed Pong reply) leaves it running, and a terminated relay
\* forwards nothing more.
RelayEndsOnlyOnListedEvents ==
    [][/\ relay.pc = "running" /\ relay'.log # relay.log
          => LET ev == relay'.log[Len(relay'.log)]
             IN  /\ EndsRelay(ev) => relay'.pc = "closed" /\ relay'.closed
                 /\ ~EndsRelay(ev) => relay'.pc = "running" /\ ~relay'.closed
       /\ relay.pc = "closed"
          => /\ relay'.to_client = relay.to_client
             /\ relay'.pc = "closed" /\ relay'.closed]_vars

\* The relay outlived a failed Pong reply to upstream and a client message,
\* forwarding nothing for them, and then ended on a failed forward.
FailedPongThenFailedForward ==
    /\ relay.pc = "closed" /\ relay.closed
    /\ Len(relay.log) = 3
    /\ relay.log[1].src = "upstream" /\ relay.log[1].kind = "ping" /\ ~relay.log[1].sent
    /\ relay.log[2].src = "client" /\ relay.log[2].kind = "text"
    /\ relay.log[3].src = "upstream" /\ relay.log[3].kind = "text" /\ ~relay.log[3].sent
    /\ relay.to_client = <<>>

\* The frames of kind k that the events of log caused to be sent, in order:
\* src and kinds select the events, a failed send leaves no frame.
Frames(log, src, kinds, k) ==
    LET F[i \in 0..Len(log)] ==
            IF i = 0 THEN <<>>
            ELSE IF log[i].src = src /\ log[i].kind \in kinds /\ log[i].sent
                 THEN Append(F[i - 1],
                             [kind |-> IF k = "" THEN log[i].kind ELSE k,
                              payload |-> log[i].payload])
                 ELSE F[i - 1]
    IN  F[Len(log)]

IsData(f) == f.kind \in {"text", "binary"}

\* C21: the Text and Binary frames a relay has sent to its client are the
\* Text and Binary messages it received from upstream, unchanged, once each
\* and in the order received (while it runs none is missing; the one whose
\* send failed ended it); the Pongs it has sent upstream carry the payloads of
\* the upstream Pings, in order; and no upstream Ping reaches the client: the
\* only other frames the client gets are the timer's own "ping".
RelayForwardsInOrder ==
    relay.pc \in {"running", "closed"} /\ relay.log # <<>>
    => /\ SelectSeq(relay.to_client, IsData)
            = Frames(relay.log, "upstream", {"text", "binary"}, "")
       /\ relay.pc = "running"
            => \A i \in 1..Len(relay.log) :
                  relay.log[i].src = "upstream" /\ relay.log[i].kind \in {"text", "binary"}
                  => relay.log[i].sent
       /\ relay.to_upstream
            = <<[kind |-> "text", payload |-> "subscribe"]>>
                 \o Frames(relay.log, "upstream", {"ping"}, "pong")
       /\ SelectSeq(relay.to_client, LAMBDA f : ~IsData(f))
            = Frames(relay.log, "timer", {"ping"}, "")

\* A running relay forwarded two messages in the order received and answered
\* the Ping that came between them, which the client never saw.
ForwardedAroundPing ==
    /\ relay.pc = "running"
    /\ Len(relay.log) = 3
    /\ relay.log[2].src = "upstream" /\ relay.log[2].kind = "ping"
    /\ relay.to_client = <<[kind |-> "text", payload |-> "t2"],
                           [kind |-> "binary", payload |-> "t1"]>>
    /\ relay.to_upstream = <<[kind |-> "text", payload |-> "subscribe"],
                             [kind |-> "pong", payload |-> "t1"]>>

----------------------------------------------------------------------------
(* The notification bus *)

\* The number of sent values the first n events of a stream account for: one
\* per delivered event, the missed ones per "lagged" event.
Covered(out, n) ==
    LET C[i \in 0..n] ==
            IF i = 0 THEN 0
            ELSE C[i - 1] + (IF out[i].at > 0 THEN 1 ELSE out[i].missed)
    IN  C[n]

\* C22: a publisher can always send, whatever the subscribers have read (or
\* with none); and every value sent since a stream subscribed and before its
\* position was either delivered to it, with its own name, in the order sent,
\* or is one of the values (at least one) that a single "lagged" event stands
\* for, after which the stream goes on with later values in the order sent.
BusNeverBlocksLagIsMarked ==
    /\ Len(bus.sent) < MaxPublished => \A e \in EventNames : ENABLED Send(e)
    /\ \A s \in Subscribers :
          LET st == bus.streams[s]
          IN  st.on =>
                /\ st.next = st.from + Covered(st.out, Len(st.out))
                /\ st.next <= Len(bus.sent)
                /\ \A i \in 1..Len(st.out) :
                      IF st.out[i].at > 0
                      THEN /\ st.out[i].at = st.from + Covered(st.out, i)
                           /\ st.out[i].event = bus.sent[st.out[i].at]
                           /\ st.out[i].data = "1"
                      ELSE /\ st.out[i].event = "ping" /\ st.out[i].data = "lagged"
                           /\ st.out[i].missed > 0

\* A stream that fell behind got one "lagged" event for the values it missed
\* and then the later values in order, while another stream had read nothing
\* and nobody else was subscribed when the first value was sent.
LaggedThenResumed ==
    \E s \in Subscribers : \E t \in Subscribers \ {s} :
       LET st == bus.streams[s]
       IN  /\ st.on /\ st.from = 0 /\ Len(st.out) = 3
           /\ st.out[1].data = "lagged" /\ st.out[1].missed = Len(bus.sent) - BusCapacity
           /\ st.out[2].at + 1 = st.out[3].at
           /\ st.out[3].at = Len(bus.sent)
           /\ bus.streams[t].on /\ bus.streams[t].out = <<>>
           /\ bus.streams[t].from > 0

----------------------------------------------------------------------------
(* Deposits *)

\* C23: a deposit whose amount does not parse, is not finite, is zero or is
\* negative is rejected at once, writes nothing, publishes no event and leaves
\* every account as it was; a deposit of a finite amount > 0 that ran alone
\* and returned success has set the cash to the cash before plus the amount
\* (the starting cash plus the amount for a user without an account).
DepositValidated ==
    \A r \in Reqs :
        LET rq == req[r]
        IN  rq.kind = "deposit" =>
              /\ (rq.unparsed \/ rq.total \in {Infinity, NaN} \/ rq.total <= 0)
                 => /\ rq.pc = "done"
                    /\ rq.result \in {"bad_amount", "not_positive"}
                    /\ ~rq.wrote /\ rq.sent = <<>>
                    /\ rq.alone => accounts = rq.pre.accounts
              /\ DoneAlone(r, "deposit") /\ rq.result = "ok"
                 => /\ rq.total > 0
                    /\ accounts[rq.user] = CashOf(rq.pre.accounts, rq.user) + rq.total
                    /\ \A u \in DOMAIN accounts \ {rq.user} :
                          u \in DOMAIN rq.pre.accounts /\ accounts[u] = rq.pre.accounts[u]

\* A deposit of an infinite amount was refused after an earlier deposit of
\* 5000 had raised the same user's cash to 15000.
InfiniteDepositRefused ==
    \E r \in Reqs :
        /\ req[r].pc = "done" /\ req[r].kind = "deposit"
        /\ req[r].total = Infinity /\ req[r].result = "not_positive"
        /\ accounts = (req[r].user :> StartingCash + 5000)
        /\ deposited[req[r].user] = 5000

----------------------------------------------------------------------------
(* The monitor beside the alert requests *)

\* C24: a tick that has ended published alertsUpdated only if one of its own
\* conditional updates changed an alert from untriggered to triggered; when
\* every alert it hit had been triggered or deleted meanwhile it published
\* nothing.
TickPublishesOnlyOwnFlips ==
    mon.pc = "sleep" /\ mon.result = "ok" /\ mon.flipped = {} => mon.sent = <<>>

\* The symbols whose quote fetch failed in the tick m: fetched, and no alert
\* of theirs was given a price.
QuoteFailedFor(m) ==
    {s \in DOMAIN m.fetched : \A e \in m.seen : e.alert.symbol # s}

GroupOf(m, s) == {a \in m.loaded : a.symbol = s}

\* C25: in a tick the alerts of a symbol whose quote fetch failed are not
\* touched (no update is issued for them and they stay untriggered in the
\* store); a tick that ends has fetched every symbol it loaded and given a
\* price to every alert of the symbols whose fetch succeeded; and the next
\* tick's listing loads the alerts of the failed symbol again.
FailedQuoteSkipsGroup ==
    [][/\ \A s \in QuoteFailedFor(mon') : \A a \in GroupOf(mon', s) :
             /\ a.id \notin mon'.flipped \cup mon'.failed
             /\ \A i \in 1..Len(mon'.todo) : mon'.todo[i].id # a.id
             /\ a \in alerts'
       /\ mon'.pc = "sleep" /\ mon'.result = "ok"
             => /\ DOMAIN mon'.fetched = {a.symbol : a \in mon'.loaded}
                /\ \A s \in DOMAIN mon'.fetched \ QuoteFailedFor(mon') :
                      \A a \in GroupOf(mon', s) : \E e \in mon'.seen : e.alert = a
       /\ ticks' # ticks /\ mon'.result # "tick_error"
             => \A s \in QuoteFailedFor(mon) : GroupOf(mon, s) \subseteq mon'.loaded]_vars

\* A tick has ended in which the AAPL quote failed and the TSLA quote hit: the
\* TSLA alert is triggered and the AAPL alert is as it was.
OneGroupSkippedOtherTriggered ==
    /\ mon.pc = "sleep" /\ mon.result = "ok"
    /\ QuoteFailedFor(mon) = {"AAPL"}
    /\ \E a \in GroupOf(mon, "TSLA") : a.id \in mon.flipped
    /\ \E a \in GroupOf(mon, "AAPL") : a \in alerts /\ ~a.triggered

\* C26: no tick starts while another is executing; a tick whose listing
\* failed ends at once, having modified no alert and published nothing; and
\* whenever the monitor is between ticks (before its first tick, after a tick
\* that returned Ok, after a tick-level error) another tick is eventually
\* started.
MonitorNeverStopsNorOverlaps ==
    /\ [][/\ ticks' # ticks => mon.pc = "sleep"
          /\ ticks' # ticks /\ mon'.result = "tick_error"
                => mon'.pc = "sleep" /\ mon'.sent = <<>> /\ alerts' = alerts]_vars
    /\ \A k \in {0, 1} : (mon.pc = "sleep" /\ ticks = k) ~> (ticks # k)

\* A tick is executing after a tick whose listing failed: the one store
\* failure so far hit neither the creation of an alert nor an update.
TickRunsAfterTickError ==
    /\ faults = 1
    /\ nextAid = Cardinality(alerts) + 1
    /\ \A id \in DOMAIN obs : \A i \in 1..Len(obs[id]) : obs[id][i].ok
    /\ mon.pc = "update"

\* A step in which the tick takes the quote of s and the quote is a valid
\* price that satisfies the condition of every alert of the group.
GoodQuote(s) ==
    mon.pc = "quote" /\ s \in DOMAIN mon.by_symbol /\ s \notin DOMAIN mon'.by_symbol
    => \A i \in 1..Len(mon.by_symbol[s]) :
          LET a == mon.by_symbol[s][i]
          IN  \E e \in mon'.seen :
                 /\ e.alert = a /\ e.price > 0
                 /\ \/ a.condition = "above" /\ e.price >= a.target_price
                    \/ a.condition = "below" /\ e.price <= a.target_price

Untriggered(id, s) == \E a \in alerts : a.id = id /\ a.symbol = s /\ ~a.triggered

\* C27: with the monitor scheduled fairly, if from some point on every quote
\* fetched for a symbol is a valid price satisfying its alerts' conditions,
\* then every untriggered alert of that symbol (none is deleted here, and the
\* store fails only finitely often) is eventually triggered, whatever quotes
\* and store calls failed before.
GoodQuotesEventuallyTrigger ==
    \A s \in {"AAPL", "TSLA"} : \A id \in AlertIds :
        <>[][GoodQuote(s)]_vars
        => [](Untriggered(id, s) => <>(\E a \in alerts : a.id = id /\ a.triggered))

\* An alert was triggered by the monitor in a later tick, after the update of
\* an earlier tick had failed in the store.
TriggeredAfterFailedTick ==
    \E id \in DOMAIN obs :
        /\ Len(obs[id]) = 2
        /\ obs[id][1].by = "monitor" /\ ~obs[id][1].ok
        /\ obs[id][2].by = "monitor" /\ obs[id][2].ok /\ obs[id][2].matched
        /\ \E a \in alerts : a.id = id /\ a.triggered

----------------------------------------------------------------------------
(* Concurrent buys of one user *)

\* Two buys of the same user and symbol that ran beside each other and both
\* returned success, with no store failure, after reading the same cash and
\* the same position record.
RacedBuys(a, b) ==
    /\ a.pc = "done" /\ b.pc = "done"
    /\ ~a.alone /\ ~b.alone
    /\ a.kind = "buy" /\ b.kind = "buy"
    /\ a.result = "ok" /\ b.result = "ok"
    /\ ~a.faulted /\ ~b.faulted
    /\ a.user = b.user /\ a.symbol = b.symbol
    /\ a.total > 0 /\ b.total > 0
    /\ a.cash + a.total = b.cash + b.total
    /\ a.pos[1].id = b.pos[1].id
    /\ a.pos[1].qty - a.qty = b.pos[1].qty - b.qty

\* C28: when two concurrent buys of one user read the same cash and the same
\* position before either wrote and both return success, both orders are
\* recorded (they are the last two of the log), yet the cash is the cash read
\* less the total of one of them only and the position's qty is the qty read
\* plus the qty of one of them only.
RacedBuysLoseAnUpdate ==
    RacedBuys(req["r1"], req["r2"])
    => LET a == req["r1"]
           b == req["r2"]
           n == Len(orders)
           held == FindPosition(positions, a.user, a.symbol)
       IN  /\ n >= 2
           /\ {orders[n - 1], orders[n]} = {Order(a), Order(b)}
           /\ accounts[a.user] \in {a.cash, b.cash}
           /\ held # <<>>
           /\ held[1].qty \in {a.pos[1].qty, b.pos[1].qty}

\* The user held 1 AAPL and 7500; two concurrent buys of 1 AAPL at 2500 both
\* succeeded and three orders are logged, but the cash is 5000 and the
\* position 2.
TwoBuysOneDebit ==
    /\ RacedBuys(req["r1"], req["r2"])
    /\ req["r1"].qty = 1 /\ req["r2"].qty = 1
    /\ req["r1"].price = 2500 /\ req["r2"].price = 2500
    /\ Len(orders) = 3
    /\ accounts["u1"] = StartingCash - 5000
    /\ \E p \in positions : p.symbol = "AAPL" /\ p.qty = 2

----------------------------------------------------------------------------
(* The writes of one trade *)

\* C29: after a buy that ran alone has returned, with success or with an
\* error, the position increase and the cash debit are both in the store or
\* neither is.
BuyIsOneUnit ==
    \A r \in Reqs :
        LET rq == req[r]
        IN  DoneAlone(r, "buy") /\ rq.total > 0
            => (FindPosition(positions, rq.user, rq.symbol)
                    # FindPosition(rq.pre.positions, rq.user, rq.symbol)
                <=> CashOf(accounts, rq.user) # CashOf(rq.pre.accounts, rq.user))

\* A sell that ran alone, of a position the user held, at a usable price, in
\* which the one store failure of the behaviour so far struck and after which
\* the position record is as it was before: the failure was that of the
\* position write (or, for a sell that never got that far, of the read).
SellFailedAtPosition(r) ==
    LET rq == req[r]
    IN  /\ DoneAlone(r, "sell")
        /\ rq.faulted /\ faults = 1
        /\ rq.price > 0 /\ rq.total > 0
        /\ FindPosition(rq.pre.positions, rq.user, rq.symbol) # <<>>
        /\ positions = rq.pre.positions

\* C30: a sell of the whole held quantity whose position deletion failed
\* still returns success with no remaining position, credits the cash by
\* price * qty, appends the sell order and publishes the three events, the
\* stored position keeping its previous qty; a partial sell whose position
\* update failed returns a store error, and has credited no cash, appended no
\* order and published nothing.
SellIgnoresDeleteFailure ==
    \A r \in Reqs :
        LET rq == req[r]
            held == FindPosition(rq.pre.positions, rq.user, rq.symbol)
        IN  SellFailedAtPosition(r) =>
              IF rq.qty = held[1].qty
              THEN /\ rq.result = "ok"
                   /\ rq.remaining = <<>>
                   /\ accounts[rq.user] = CashOf(rq.pre.accounts, rq.user) + rq.price * rq.qty
                   /\ orders = Append(rq.pre.orders, Order(rq))
                   /\ \A e \in {"ordersUpdated", "positionUpdated", "cashUpdated"} :
                         Times(rq.sent, e) = 1
              ELSE /\ rq.result = "db_error"
                   /\ accounts = rq.pre.accounts
                   /\ orders = rq.pre.orders
                   /\ rq.sent = <<>>

\* A user sold all they held, the deletion failed: the sell succeeded, the
\* cash is credited and the position is still stored.
SoldOutPositionKept ==
    \E r \in Reqs :
        /\ SellFailedAtPosition(r)
        /\ req[r].result = "ok"
        /\ \E p \in positions :
              p.user_id = req[r].user /\ p.symbol = req[r].symbol /\ p.qty = req[r].qty
        /\ accounts[req[r].user] = StartingCash - 2500 + req[r].total

====
